---- MODULE Spec2Model ----
(***************************************************************************)
(* Model of shenv (src/src/shenv/__init__.py): the value classifier        *)
(* parse_str, the name-aware integer override EnvBase.as_int, the          *)
(* environment snapshot EnvBase and the standalone helper parse_env.       *)
(*                                                                         *)
(* A Python string is a sequence of characters, each character a one       *)
(* element TLA+ string.  Two non-ASCII characters are written by their     *)
(* code point: "U+00BD" is VULGAR FRACTION ONE HALF (numeric, no decimal   *)
(* value) and "U+0663" is ARABIC-INDIC DIGIT THREE (decimal value 3).      *)
(***************************************************************************)
EXTENDS Integers, Sequences, FiniteSets, TLC

VARIABLES op, inKey, inData, ret, environ, parsed, cls, self_dict, stack

vars == <<op, inKey, inData, ret, environ, parsed, cls, self_dict, stack>>

(***************************************************************************)
(* Bounds of the model.                                                    *)
(***************************************************************************)
MaxLen == 3

RecursionLimit == 4

MaxLookups == 3

(***************************************************************************)
(* Characters and the str methods the code uses.                           *)
(***************************************************************************)
AsciiDigits == <<"0", "1", "2", "3", "4", "5", "6", "7", "8", "9">>

UpperCase == <<"A", "B", "C", "D", "E", "F", "G", "H", "I", "J", "K", "L", "M",
               "N", "O", "P", "Q", "R", "S", "T", "U", "V", "W", "X", "Y", "Z">>

LowerCase == <<"a", "b", "c", "d", "e", "f", "g", "h", "i", "j", "k", "l", "m",
               "n", "o", "p", "q", "r", "s", "t", "u", "v", "w", "x", "y", "z">>

Range(f) == {f[i] : i \in DOMAIN f}

IndexOf(seq, c) == CHOOSE i \in DOMAIN seq : seq[i] = c

IsAsciiDigit(c) == c \in Range(AsciiDigits)

\* str.isdecimal for one character: the characters int() accepts as digits
IsDecimalChar(c) == IsAsciiDigit(c) \/ c = "U+0663"

\* str.isnumeric for one character: decimal digits and the other numerics
IsNumericChar(c) == IsDecimalChar(c) \/ c = "U+00BD"

DecimalValue(c) == IF IsAsciiDigit(c) THEN IndexOf(AsciiDigits, c) - 1 ELSE 3

IsHexChar(c) == \/ IsAsciiDigit(c)
                \/ c \in {"a", "b", "c", "d", "e", "f"}
                \/ c \in {"A", "B", "C", "D", "E", "F"}

lower_char(c) == IF c \in Range(UpperCase) THEN LowerCase[IndexOf(UpperCase, c)] ELSE c

HexValue(c) == IF IsAsciiDigit(c) THEN IndexOf(AsciiDigits, c) - 1
               ELSE IndexOf(LowerCase, lower_char(c)) + 9

\* str.lower()
lower(s) == [i \in 1..Len(s) |-> lower_char(s[i])]

\* sub in s
contains(s, sub) == \E i \in 1..(Len(s) - Len(sub) + 1) : SubSeq(s, i, i + Len(sub) - 1) = sub

\* s.endswith(suffix)
endswith(s, suffix) == /\ Len(suffix) <= Len(s)
                       /\ SubSeq(s, Len(s) - Len(suffix) + 1, Len(s)) = suffix

\* str.isnumeric(): non-empty and every character numeric
isnumeric(s) == Len(s) > 0 /\ \A i \in 1..Len(s) : IsNumericChar(s[i])

\* a non-empty string of decimal digits
IsDigitString(s) == Len(s) > 0 /\ \A i \in 1..Len(s) : IsDecimalChar(s[i])

RECURSIVE DecimalOf(_)
DecimalOf(s) == IF Len(s) = 0 THEN 0
                ELSE 10 * DecimalOf(SubSeq(s, 1, Len(s) - 1)) + DecimalValue(s[Len(s)])

RECURSIVE HexOf(_)
HexOf(s) == IF Len(s) = 0 THEN 0
            ELSE 16 * HexOf(SubSeq(s, 1, Len(s) - 1)) + HexValue(s[Len(s)])

\* s.split(sep) for a one character separator
RECURSIVE split(_, _)
split(s, sep) ==
    IF \A i \in 1..Len(s) : s[i] # sep THEN <<s>>
    ELSE LET i == CHOOSE j \in 1..Len(s) : s[j] = sep /\ \A k \in 1..(j - 1) : s[k] # sep
         IN  <<SubSeq(s, 1, i - 1)>> \o split(SubSeq(s, i + 1, Len(s)), sep)

(***************************************************************************)
(* Values: the results of the classifier and what a call can raise.        *)
(***************************************************************************)
None == [tag |-> "None"]

Bool(b) == [tag |-> "bool", b |-> b]

Integer(n) == [tag |-> "int", n |-> n]

String(s) == [tag |-> "str", s |-> s]

Raise(exc) == [tag |-> "raise", exc |-> exc]

\* int(value) on a string of numeric characters
int(value) == IF IsDigitString(value) THEN Integer(DecimalOf(value)) ELSE Raise("ValueError")

\* str(data) of a non-string argument
RECURSIVE DecimalDigits(_)
DecimalDigits(n) == IF n < 10 THEN <<AsciiDigits[n + 1]>>
                    ELSE DecimalDigits(n \div 10) \o <<AsciiDigits[(n % 10) + 1]>>

str(data) == IF data.tag = "str" THEN data.s ELSE DecimalDigits(data.n)

(***************************************************************************)
(* ipaddress.ip_address(data): IPv4Address, then IPv6Address, else         *)
(* ValueError.  NoAddress stands for the ValueError.                       *)
(***************************************************************************)
NoAddress == [tag |-> "ValueError"]

Address(version, groups) == [tag |-> "ip", version |-> version, groups |-> groups]

\* IPv4Address._parse_octet; -1 when it raises
parse_octet(octet_str) ==
    IF Len(octet_str) = 0 THEN -1
    ELSE IF \E i \in 1..Len(octet_str) : ~IsAsciiDigit(octet_str[i]) THEN -1
    ELSE IF Len(octet_str) > 3 THEN -1
    ELSE IF octet_str # <<"0">> /\ octet_str[1] = "0" THEN -1
    ELSE IF DecimalOf(octet_str) > 255 THEN -1
    ELSE DecimalOf(octet_str)

IPv4Address(addr_str) ==
    LET octets == split(addr_str, ".")
    IN  IF contains(addr_str, <<"/">>) \/ Len(addr_str) = 0 THEN NoAddress
        ELSE IF Len(octets) # 4 THEN NoAddress
        ELSE IF \E i \in 1..4 : parse_octet(octets[i]) = -1 THEN NoAddress
        ELSE Address(4, [i \in 1..4 |-> parse_octet(octets[i])])

\* IPv6Address._parse_hextet; -1 when it raises
parse_hextet(hextet_str) ==
    IF \E i \in 1..Len(hextet_str) : ~IsHexChar(hextet_str[i]) THEN -1
    ELSE IF Len(hextet_str) > 4 THEN -1
    ELSE HexOf(hextet_str)

\* the hextets of a run of parts; a part is a string or, for an embedded
\* IPv4 address, the number it was replaced by
HextetOf(part) == IF part.tag = "str" THEN parse_hextet(part.s) ELSE part.n

IsEmptyPart(part) == part.tag = "str" /\ Len(part.s) = 0

\* IPv6Address._ip_int_from_string
IPv6Address(addr_str) ==
    LET raw_parts == split(addr_str, ":")
        last      == raw_parts[Len(raw_parts)]
        ipv4      == IPv4Address(last)
        embedded  == contains(last, <<".">>)
        parts     == IF embedded /\ ipv4.tag = "ip"
                     THEN [i \in 1..(Len(raw_parts) - 1) |-> String(raw_parts[i])]
                          \o << Integer(ipv4.groups[1] * 256 + ipv4.groups[2]),
                                Integer(ipv4.groups[3] * 256 + ipv4.groups[4]) >>
                     ELSE [i \in 1..Len(raw_parts) |-> String(raw_parts[i])]
        n         == Len(parts)
        skips     == {i \in 2..(n - 1) : IsEmptyPart(parts[i])}
        skip      == CHOOSE i \in skips : TRUE
        hi0       == skip - 1
        lo0       == n - skip
        parts_hi  == IF IsEmptyPart(parts[1]) THEN hi0 - 1 ELSE hi0
        parts_lo  == IF IsEmptyPart(parts[n]) THEN lo0 - 1 ELSE lo0
        skipped   == 8 - (parts_hi + parts_lo)
        groups    == IF skips = {}
                     THEN [i \in 1..8 |-> HextetOf(parts[i])]
                     ELSE [i \in 1..8 |->
                             IF i <= parts_hi THEN HextetOf(parts[i])
                             ELSE IF i <= parts_hi + skipped THEN 0
                             ELSE HextetOf(parts[n - (8 - i)])]
    IN  IF contains(addr_str, <<"/">>) \/ contains(addr_str, <<"%">>) THEN NoAddress
        ELSE IF Len(addr_str) = 0 THEN NoAddress
        ELSE IF Len(raw_parts) < 3 THEN NoAddress
        ELSE IF embedded /\ ipv4.tag # "ip" THEN NoAddress
        ELSE IF n > 9 THEN NoAddress
        ELSE IF Cardinality(skips) > 1 THEN NoAddress
        ELSE IF skips = {}
             THEN IF n # 8 \/ IsEmptyPart(parts[1]) \/ IsEmptyPart(parts[n]) THEN NoAddress
                  ELSE IF \E i \in 1..8 : groups[i] = -1 THEN NoAddress
                  ELSE Address(6, groups)
        ELSE IF IsEmptyPart(parts[1]) /\ parts_hi # 0 THEN NoAddress
        ELSE IF IsEmptyPart(parts[n]) /\ parts_lo # 0 THEN NoAddress
        ELSE IF skipped < 1 THEN NoAddress
        ELSE IF \E i \in 1..8 : groups[i] = -1 THEN NoAddress
        ELSE Address(6, groups)

ip_address(address) ==
    IF IPv4Address(address).tag = "ip" THEN IPv4Address(address)
    ELSE IPv6Address(address)

(***************************************************************************)
(* furl(data) keeps the text it was given; Path(data) is pathlib's pure    *)
(* POSIX path: a root and the components that are neither empty nor ".".   *)
(***************************************************************************)
furl(url) == [tag |-> "url", url |-> url]

PathRoot(s) == IF Len(s) >= 1 /\ s[1] = "/"
               THEN IF Len(s) >= 2 /\ s[2] = "/" /\ ~(Len(s) >= 3 /\ s[3] = "/")
                    THEN <<"/", "/">> ELSE <<"/">>
               ELSE <<>>

\* Path keeping the "." components of its argument
Path_KeepsDotParts(s) ==
    [tag   |-> "path",
     root  |-> PathRoot(s),
     parts |-> SelectSeq(split(s, "/"), LAMBDA x : x # <<>>)]

Path(s) == [tag   |-> "path",
            root  |-> PathRoot(s),
            parts |-> SelectSeq(split(s, "/"), LAMBDA x : x # <<>> /\ x # <<".">>)]

RECURSIVE join(_, _)
join(sep, parts) == IF Len(parts) = 0 THEN <<>>
                    ELSE IF Len(parts) = 1 THEN parts[1]
                    ELSE parts[1] \o sep \o join(sep, Tail(parts))

\* str(path)
PathStr(p) == IF p.root = <<>> /\ p.parts = <<>> THEN <<".">>
              ELSE p.root \o join(<<"/">>, p.parts)

(***************************************************************************)
(* The classifier and the integer override.                                *)
(***************************************************************************)
ENV_PARSE_AS_INT_NAME ==
    << <<"G","I","T","_","M","E","R","G","E","_","V","E","R","B","O","S","I","T","Y">>,
       <<"P","I","D">>,
       <<"P","P","I","D">> >>

ENV_PARSE_AS_INT_SUFFIX ==
    << <<"_","A","T","T","E","M","P","T">>,
       <<"_","I","D">>,
       <<"_","G","I","D">>,
       <<"_","J","O","B","S">>,
       <<"_","N","U","M","B","E","R">>,
       <<"_","P","O","R","T">>,
       <<"_","U","I","D">> >>

Truthy == { <<"1">>, <<"t","r","u","e">>, <<"y","e","s">>, <<"o","n">> }

Falsy == { <<"0">>, <<"f","a","l","s","e">>, <<"n","o">>, <<"o","f","f">> }

\* parse_str comparing data itself, not data.lower(), with the literals
parse_str_CaseSensitive(d) ==
    IF d.tag = "None" THEN None
    ELSE LET s == str(d)
         IN  IF s \in Truthy THEN Bool(TRUE)
             ELSE IF s \in Falsy THEN Bool(FALSE)
             ELSE IF contains(s, <<":", "/", "/">>) \/ contains(s, <<"@">>) THEN furl(s)
             ELSE IF Len(s) = 0 THEN Raise("IndexError")
             ELSE IF s[1] \in {"/", "~", "."} /\ ~contains(s, <<":">>) THEN Path(s)
             ELSE IF ip_address(s).tag = "ip" THEN ip_address(s)
             ELSE IF isnumeric(s) THEN int(s)
             ELSE String(s)

\* parse_str testing only the first character before it calls int()
parse_str_FirstCharNumeric(d) ==
    IF d.tag = "None" THEN None
    ELSE LET s == str(d)
         IN  IF lower(s) \in Truthy THEN Bool(TRUE)
             ELSE IF lower(s) \in Falsy THEN Bool(FALSE)
             ELSE IF contains(s, <<":", "/", "/">>) \/ contains(s, <<"@">>) THEN furl(s)
             ELSE IF Len(s) = 0 THEN Raise("IndexError")
             ELSE IF s[1] \in {"/", "~", "."} /\ ~contains(s, <<":">>) THEN Path(s)
             ELSE IF ip_address(s).tag = "ip" THEN ip_address(s)
             ELSE IF IsNumericChar(s[1]) THEN int(s)
             ELSE String(s)

\* parse_str taking every string that starts with "/", "~" or "." as a path
parse_str_NoColonTest(d) ==
    IF d.tag = "None" THEN None
    ELSE LET s == str(d)
         IN  IF lower(s) \in Truthy THEN Bool(TRUE)
             ELSE IF lower(s) \in Falsy THEN Bool(FALSE)
             ELSE IF contains(s, <<":", "/", "/">>) \/ contains(s, <<"@">>) THEN furl(s)
             ELSE IF Len(s) = 0 THEN Raise("IndexError")
             ELSE IF s[1] \in {"/", "~", "."} THEN Path(s)
             ELSE IF ip_address(s).tag = "ip" THEN ip_address(s)
             ELSE IF isnumeric(s) THEN int(s)
             ELSE String(s)

\* parse_str(data): data is None, a string, or a value that str() converts
parse_str(d) ==
    IF d.tag = "None" THEN None
    ELSE LET s == str(d)
         IN  IF lower(s) \in Truthy THEN Bool(TRUE)
             ELSE IF lower(s) \in Falsy THEN Bool(FALSE)
             ELSE IF contains(s, <<":", "/", "/">>) \/ contains(s, <<"@">>) THEN furl(s)
             ELSE IF Len(s) = 0 THEN Raise("IndexError")
             ELSE IF s[1] \in {"/", "~", "."} /\ ~contains(s, <<":">>) THEN Path(s)
             ELSE IF ip_address(s).tag = "ip" THEN ip_address(s)
             ELSE IF isnumeric(s) THEN int(s)
             ELSE String(s)

\* the flag with the suffixes matched without their leading underscore
convert_SuffixWithoutUnderscore(k, value) ==
    /\ Len(value) > 0
    /\ \/ k \in Range(ENV_PARSE_AS_INT_NAME)
       \/ \E i \in DOMAIN ENV_PARSE_AS_INT_SUFFIX : endswith(k, Tail(ENV_PARSE_AS_INT_SUFFIX[i]))

\* the flag EnvBase.as_int computes before it converts
convert(k, value) ==
    /\ Len(value) > 0
    /\ \/ k \in Range(ENV_PARSE_AS_INT_NAME)
       \/ \E i \in DOMAIN ENV_PARSE_AS_INT_SUFFIX : endswith(k, ENV_PARSE_AS_INT_SUFFIX[i])

\* as_int without the override
as_int_NoOverride(k, value) == parse_str(String(value))

\* as_int converting whenever the flag is set, numeric value or not
as_int_ConvertOnly(k, value) ==
    IF convert(k, value) THEN int(value) ELSE parse_str(String(value))

\* EnvBase.as_int(key, value)
as_int(k, value) ==
    IF convert(k, value) /\ isnumeric(value) THEN int(value) ELSE parse_str(String(value))

(***************************************************************************)
(* Inputs: every string of at most MaxLen characters over Alphabet, the    *)
(* boolean literals in every mix of upper and lower case, and the strings  *)
(* of the doctests and of the documentation.                               *)
(***************************************************************************)
Alphabet == {"0", "1", "2", "U+00BD", "U+0663", "a", "n", "o", "N", "-", "/", ".", ":", "@", "~"}

upper_char(c) == IF c \in Range(LowerCase) THEN UpperCase[IndexOf(LowerCase, c)] ELSE c

CaseVariants(lit) ==
    { [i \in 1..Len(lit) |-> IF i \in U THEN upper_char(lit[i]) ELSE lit[i]] : U \in SUBSET (1..Len(lit)) }

Samples ==
  {
    <<"h","t","t","p","s",":","/","/","g","i","t","h","u","b",".","c","o","m">>,
    <<"g","i","t","@","g","i","t","h","u","b",".","c","o","m">>,
    <<"/","h","o","m","e","/","a","@","b">>,
    <<"~","/","f","o","o">>,
    <<"/","f","o","o">>,
    <<".","/","f","o","o">>,
    <<"/","u","s","r","/","s","h","a","r","e","/","m","a","n",":">>,
    <<"/","u","s","r","/","b","i","n",":","/","b","i","n">>,
    <<"0",".","0",".","0",".","0">>,
    <<"2","5","5",".","0",".","0",".","1">>,
    <<"2","5","6",".","0",".","0",".","1">>,
    <<"2",".","0">>,
    <<"-","1">>,
    <<"1","e","5">>,
    <<"a","b","c">>,
    <<"8","0","8","0">>,
    <<"6","5","5","3","5">>
  }

Strings == UNION { [1..n -> Alphabet] : n \in 0..MaxLen }
           \cup UNION { CaseVariants(lit) : lit \in Truthy \cup Falsy }
           \cup Samples

Keys ==
  {
    <<"P","I","D">>,
    <<"P","P","I","D">>,
    <<"G","I","T","_","M","E","R","G","E","_","V","E","R","B","O","S","I","T","Y">>,
    <<"S","U","D","O","_","U","I","D">>,
    <<"S","U","D","O","_","G","I","D">>,
    <<"S","O","M","E","_","U","I","D">>,
    <<"G","I","T","H","U","B","_","R","U","N","_","I","D">>,
    <<"G","I","T","H","U","B","_","R","U","N","_","A","T","T","E","M","P","T">>,
    <<"G","I","T","H","U","B","_","R","U","N","_","N","U","M","B","E","R">>,
    <<"M","A","K","E","_","J","O","B","S">>,
    <<"S","S","H","_","P","O","R","T">>,
    <<"P","O","R","T">>,
    <<"U","I","D">>,
    <<"F","O","O">>,
    <<"G","I","T","_","A","U","T","H","O","R","_","N","A","M","E">>
  }

Datas == {None} \cup {String(s) : s \in Strings} \cup {Integer(n) : n \in {0, 7, 10}}

Pending == [tag |-> "pending"]

NoEnviron == [n \in {} |-> <<>>]

(***************************************************************************)
(* Spec: the classifier and the override as functions of their arguments.  *)
(***************************************************************************)
Init ==
    /\ op = "init"
    /\ inKey \in Keys
    /\ inData \in Datas
    /\ ret = Pending
    /\ environ = NoEnviron
    /\ parsed = TRUE
    /\ cls = "EnvBase"
    /\ self_dict = NoEnviron
    /\ stack = <<>>

\* a call parse_str(inData)
CallParseStr ==
    /\ op = "init"
    /\ op' = "parse_str"
    /\ ret' = parse_str(inData)
    /\ UNCHANGED <<inKey, inData, environ, parsed, cls, self_dict, stack>>

\* a call EnvBase.as_int(inKey, inData) with a string value
CallAsInt ==
    /\ op = "init"
    /\ inData.tag = "str"
    /\ op' = "as_int"
    /\ ret' = as_int(inKey, inData.s)
    /\ UNCHANGED <<inKey, inData, environ, parsed, cls, self_dict, stack>>

\* str(parse_str(inData)) for a result that is a path
CallStrOfPath ==
    /\ op = "parse_str"
    /\ ret.tag = "path"
    /\ op' = "str"
    /\ ret' = String(PathStr(ret))
    /\ UNCHANGED <<inKey, inData, environ, parsed, cls, self_dict, stack>>

Next == CallParseStr \/ CallAsInt \/ CallStrOfPath

Spec == Init /\ [][Next]_vars

(***************************************************************************)
(* Claims about the classifier and the override, checked under Spec.       *)
(***************************************************************************)
KeyMatches(k) ==
    \/ k \in { <<"G","I","T","_","M","E","R","G","E","_","V","E","R","B","O","S","I","T","Y">>, <<"P","I","D">>, <<"P","P","I","D">> }
    \/ \E suffix \in { <<"_","A","T","T","E","M","P","T">>,
                       <<"_","I","D">>,
                       <<"_","G","I","D">>,
                       <<"_","J","O","B","S">>,
                       <<"_","N","U","M","B","E","R">>,
                       <<"_","P","O","R","T">>,
                       <<"_","U","I","D">> } :
          endswith(k, suffix)

\* the rule of the reference cascade that a non-empty string falls under
ReferenceRule(s) ==
    IF lower(s) \in Truthy \cup Falsy THEN "bool"
    ELSE IF contains(s, <<":", "/", "/">>) \/ contains(s, <<"@">>) THEN "url"
    ELSE IF s[1] \in {"/", "~", "."} /\ ~contains(s, <<":">>) THEN "path"
    ELSE IF ip_address(s).tag = "ip" THEN "ip"
    ELSE IF isnumeric(s) THEN "int"
    ELSE "str"

\* C1: for every non-empty string, parse_str gives the result of the first
\* rule of the cascade boolean, URL, path, address, integer, string that the
\* string satisfies.
C1_FirstMatchCascade ==
    (op = "parse_str" /\ inData.tag = "str" /\ Len(inData.s) > 0) =>
        /\ ret.tag = ReferenceRule(inData.s)
        /\ ret.tag = "bool" => (ret.b <=> lower(inData.s) \in Truthy)
        /\ ret.tag = "str" => ret.s = inData.s

\* C2: a string whose lower-cased form is "1", "true", "yes" or "on" parses
\* to boolean true, and one whose lower-cased form is "0", "false", "no" or
\* "off" to boolean false, whatever the case of its letters.
C2_BooleanLiterals ==
    (op = "parse_str" /\ inData.tag = "str") =>
        /\ lower(inData.s) \in Truthy => ret = Bool(TRUE)
        /\ lower(inData.s) \in Falsy => ret = Bool(FALSE)

C2_Witness ==
    /\ op = "parse_str"
    /\ inData = String(<<"T","r","U","e">>)
    /\ ret = Bool(TRUE)

\* C3: parse_str and EnvBase.as_int return a value for every input string
\* and never raise.
C3_Total == op \in {"parse_str", "as_int"} => ret.tag # "raise"

\* C4: parse_str of None and parse_str of the empty string are both None.
C4_EmptyIsAbsent ==
    (op = "parse_str" /\ (inData.tag = "None" \/ (inData.tag = "str" /\ Len(inData.s) = 0))) =>
        ret.tag = "None"

\* C5: for a key that is an always-integer name or ends with an integer
\* suffix and a non-empty raw value of decimal digits, as_int returns the
\* integer value of the raw value, also for "0" and "1".
C5_OverrideForcesInteger ==
    (op = "as_int" /\ KeyMatches(inKey) /\ IsDigitString(inData.s)) =>
        ret = Integer(DecimalOf(inData.s))

C5_Witness ==
    /\ op = "as_int"
    /\ inKey = <<"S","U","D","O","_","U","I","D">>
    /\ inData = String(<<"1">>)
    /\ ret = Integer(1)

\* C6: when the key matches no name and no suffix, or the raw value is not
\* a string of digits, as_int gives exactly the outcome of parse_str on the
\* raw value.
C6_NoOverrideDelegates ==
    (op = "as_int" /\ ~(KeyMatches(inKey) /\ IsDigitString(inData.s))) =>
        ret = parse_str(inData)

C6_Witness ==
    /\ op = "as_int"
    /\ inKey = <<"S","O","M","E","_","U","I","D">>
    /\ inData = String(<<"a","b","c">>)
    /\ ret = String(<<"a","b","c">>)

\* C7: an integer returned by as_int is the decimal value of a raw value
\* made of digits, and for a matching key the override neither yields an
\* integer for nor fails on a non-empty raw value that is not a digit string.
C7_OverrideOnlyNarrows ==
    op = "as_int" =>
        /\ ret.tag = "int" => (IsDigitString(inData.s) /\ ret.n = DecimalOf(inData.s))
        /\ (KeyMatches(inKey) /\ Len(inData.s) > 0 /\ ~IsDigitString(inData.s)) =>
               ret.tag \notin {"int", "raise"}

\* C8 as stated: for the key PORT and every non-empty raw value of digits,
\* as_int returns the integer value of the raw value.
C8_PortAlwaysInteger ==
    (op = "as_int" /\ inKey = <<"P","O","R","T">> /\ IsDigitString(inData.s)) =>
        ret = Integer(DecimalOf(inData.s))

\* C8 amended: for the key PORT, which matches no name and no suffix, a
\* non-empty raw value of digits other than "0" and "1" gives its integer
\* value, and "1" and "0" give boolean true and false.
C8_PortIntegerExceptBooleanDigits ==
    (op = "as_int" /\ inKey = <<"P","O","R","T">> /\ IsDigitString(inData.s)) =>
        /\ inData.s \notin {<<"0">>, <<"1">>} => ret = Integer(DecimalOf(inData.s))
        /\ inData.s = <<"1">> => ret = Bool(TRUE)
        /\ inData.s = <<"0">> => ret = Bool(FALSE)

C8_Witness ==
    /\ op = "as_int"
    /\ inKey = <<"P","O","R","T">>
    /\ inData = String(<<"8","0","8","0">>)
    /\ ret = Integer(8080)

(***************************************************************************)
(* Claims about paths and numbers, checked under Spec.                     *)
(***************************************************************************)
\* the text of a path that str() gives back unchanged: ".", "/", "//", or a
\* text without a trailing "/", without "//" after its first character and
\* without a component "."
IsNormalPathText(s) ==
    \/ s \in { <<".">>, <<"/">>, <<"/", "/">> }
    \/ /\ s[Len(s)] # "/"
       /\ \A i \in 1..(Len(s) - 1) : (s[i] = "/" /\ s[i + 1] = "/") => i = 1
       /\ \A i \in 1..Len(s) :
             s[i] = "." => ~( (i = 1 \/ s[i - 1] = "/") /\ (i = Len(s) \/ s[i + 1] = "/") )

\* C19 as stated: converting the path that parse_str returns for s back to
\* text gives exactly s.
C19_PathRoundTrip ==
    op = "str" => ret = inData

\* C19 amended: the text of the path that parse_str returns for s is s
\* exactly when s is in normal form; otherwise it is a different text.
C19_PathRoundTripNormalForm ==
    op = "str" => (ret = inData <=> IsNormalPathText(inData.s))

C19_Witness ==
    /\ op = "str"
    /\ inData = String(<<"~","/","f","o","o">>)
    /\ ret = inData

\* digits together with a sign, a decimal point or an exponent
NumberChars == {"+", "-", ".", "e", "E"}

LooksLikeNumber(s) ==
    /\ \A i \in 1..Len(s) : IsNumericChar(s[i]) \/ s[i] \in NumberChars
    /\ \E i \in 1..Len(s) : IsNumericChar(s[i])
    /\ \E i \in 1..Len(s) : s[i] \in NumberChars

\* C20 as stated: parse_str returns an integer only for a string of numeric
\* characters, and a string with a sign, a decimal point or an exponent
\* that is not an address is returned as the same string.
C20_NotAllNumericUnchanged ==
    op = "parse_str" /\ inData.tag # "None" =>
        /\ ret.tag = "int" => isnumeric(str(inData))
        /\ (LooksLikeNumber(str(inData)) /\ ip_address(str(inData)).tag # "ip") =>
               ret = String(str(inData))

\* C20 amended: as stated, except that such a string starting with "." is
\* returned as a path.
C20_NotAllNumericNeverNumber ==
    op = "parse_str" /\ inData.tag # "None" =>
        /\ ret.tag = "int" => isnumeric(str(inData))
        /\ (LooksLikeNumber(str(inData)) /\ ip_address(str(inData)).tag # "ip") =>
               IF str(inData)[1] = "." THEN ret.tag = "path" ELSE ret = String(str(inData))

C20_Witness ==
    /\ op = "parse_str"
    /\ inData = String(<<"2", ".", "0">>)
    /\ ret = String(<<"2", ".", "0">>)

C25_OverrideOnlyBooleanDigits ==
    (op = "as_int" /\ Len(inData.s) > 0) =>
        /\ ret # parse_str(inData) =>
              /\ KeyMatches(inKey)
              /\ inData.s \in {<<"0">>, <<"1">>}
              /\ ret = Integer(DecimalOf(inData.s))
              /\ parse_str(inData) = Bool(inData.s = <<"1">>)
        /\ (isnumeric(inData.s) /\ inData.s \notin {<<"0">>, <<"1">>}) =>
              /\ ret.tag = "int"
              /\ ret = parse_str(inData)

(***************************************************************************)
(* SpecEnv: the process environment and the construction of a snapshot.    *)
(*                                                                         *)
(* EnvBase(parsed) runs the dataclass __init__, whose only statement is    *)
(* self.__post_init__(parsed).  Every attribute of the instance, this one  *)
(* included, is resolved by EnvBase.__getattribute__, which starts with    *)
(* hasattr(self, name); hasattr resolves the same attribute of the same    *)
(* instance and so enters EnvBase.__getattribute__ again.  stack holds the *)
(* names of the nested __getattribute__ calls in progress.  hasattr turns  *)
(* only AttributeError into False, so the RecursionError raised at the     *)
(* recursion limit passes through every frame to the caller.               *)
(***************************************************************************)
EnvNames == { <<"F","O","O">>, <<"S","U","D","O","_","U","I","D">>, <<"P","O","R","T">>,
              <<"G","I","T","H","U","B","_","R","U","N","_","I","D">>, <<"E","D","I","T","O","R">> }

EnvValues == { <<>>, <<"1">>, <<"T","r","U","e">>, <<"a","b","c">> }

Environs == UNION { [N -> EnvValues] : N \in SUBSET EnvNames }

Instance == [tag |-> "EnvBase"]

\* the classes a snapshot is constructed from
Classes == {"EnvBase", "Env"}

\* the bases of Env in the order of its class statement
Env_bases == <<"EnvAction", "EnvConfig", "EnvDynamic", "EnvGit", "EnvGlobal",
               "EnvJetBrains", "EnvPython", "EnvSecrets", "EnvSystem", "EnvUnix">>

\* the fields a category declares, each as field(default=None, init=False);
\* of the catalogue, the names that EnvNames holds
Fields(category) ==
    CASE category = "EnvAction" -> { <<"G","I","T","H","U","B","_","R","U","N","_","I","D">> }
      [] category = "EnvConfig" -> { <<"E","D","I","T","O","R">> }
      [] category = "EnvGlobal" -> { <<"E","D","I","T","O","R">> }
      [] category = "EnvUnix"   -> { <<"S","U","D","O","_","U","I","D">> }
      [] OTHER                  -> {}

\* the positions in the bases of class c of the categories declaring name
Declaring(c, name) ==
    IF c = "Env" THEN {i \in DOMAIN Env_bases : name \in Fields(Env_bases[i])} ELSE {}

\* the class attribute a declaration leaves behind: the default of the field
FieldDefault(category, name) == None

\* the mapping __post_init__ passes to self.__dict__.update
post_init(p, env) ==
    IF p THEN [k \in DOMAIN env |-> as_int(k, env[k])]
    ELSE [k \in DOMAIN env |-> String(env[k])]

InitEnv ==
    /\ op = "idle"
    /\ inKey = <<>>
    /\ inData = None
    /\ ret = None
    /\ environ \in Environs
    /\ parsed = TRUE
    /\ cls = "EnvBase"
    /\ self_dict = NoEnviron
    /\ stack = <<>>

\* no call is in progress
Idle == stack = <<>> /\ ret # Pending

\* os.environ[n] = v
SetEnv(n, v) ==
    /\ Idle
    /\ op' = "setenv"
    /\ environ' = [k \in DOMAIN environ \cup {n} |-> IF k = n THEN v ELSE environ[k]]
    /\ ret' = None
    /\ UNCHANGED <<inKey, inData, parsed, cls, self_dict, stack>>

\* del os.environ[n]
DelEnv(n) ==
    /\ Idle
    /\ n \in DOMAIN environ
    /\ op' = "delenv"
    /\ environ' = [k \in DOMAIN environ \ {n} |-> environ[k]]
    /\ ret' = None
    /\ UNCHANGED <<inKey, inData, parsed, cls, self_dict, stack>>

\* c(parsed=p) for the class c, EnvBase or Env: a new instance with an empty
\* __dict__, and the __init__ of the dataclass resolving self.__post_init__;
\* the fields of Env are declared init=False and __init__ assigns none
Construct(c, p) ==
    /\ Idle
    /\ op' = "EnvBase"
    /\ cls' = c
    /\ parsed' = p
    /\ self_dict' = NoEnviron
    /\ stack' = <<"__post_init__">>
    /\ ret' = Pending
    /\ UNCHANGED <<inKey, inData, environ>>

\* EnvBase.__getattribute__(self, name): hasattr(self, name) enters
\* EnvBase.__getattribute__(self, name) once more
GetAttribute ==
    /\ ret = Pending
    /\ stack # <<>>
    /\ Len(stack) < RecursionLimit
    /\ stack' = Append(stack, stack[Len(stack)])
    /\ UNCHANGED <<op, inKey, inData, ret, environ, parsed, cls, self_dict>>

\* the interpreter refuses one more nested call
RecursionError ==
    /\ ret = Pending
    /\ Len(stack) = RecursionLimit
    /\ ret' = Raise("RecursionError")
    /\ UNCHANGED <<op, inKey, inData, environ, parsed, cls, self_dict, stack>>

\* the exception leaves one frame: hasattr and __getattribute__ do not
\* handle it
Unwind ==
    /\ ret.tag = "raise"
    /\ stack # <<>>
    /\ stack' = SubSeq(stack, 1, Len(stack) - 1)
    /\ UNCHANGED <<op, inKey, inData, ret, environ, parsed, cls, self_dict>>

(***************************************************************************)
(* The lookups of an instance whose __dict__ is d, as functions of d.      *)
(* depth is the number of nested EnvBase.__getattribute__ calls, the       *)
(* length stack would have.  An attribute name is a string like a          *)
(* variable name.                                                          *)
(***************************************************************************)
DictAttr == <<"_","_","d","i","c","t","_","_">>

GetattrAttr == <<"_","_","g","e","t","a","t","t","r","_","_">>

\* the attributes the class EnvBase itself defines
ClassMembers == { <<"a","s","_","i","n","t">>, <<"p","a","r","s","e","d">> }

Member(name) == [tag |-> "member", name |-> name]

\* object.__getattribute__(self, name), what super().__getattribute__ is
object_getattribute(d, name) ==
    IF name = DictAttr THEN [tag |-> "dict"]
    ELSE IF name \in DOMAIN d THEN d[name]
    ELSE IF name \in ClassMembers THEN Member(name)
    ELSE IF Declaring(cls, name) # {}
         THEN LET first == CHOOSE i \in Declaring(cls, name) :
                              \A j \in Declaring(cls, name) : i <= j
              IN  FieldDefault(Env_bases[first], name)
    ELSE Raise("AttributeError")

RECURSIVE __getattribute__(_, _, _)
RECURSIVE getattr(_, _, _)
RECURSIVE __contains__(_, _, _)
RECURSIVE __getattr__(_, _, _)

\* EnvBase.__getattribute__(self, name)
__getattribute__(d, name, depth) ==
    IF depth > RecursionLimit THEN Raise("RecursionError")
    ELSE LET found == getattr(d, name, depth + 1)
         IN  IF found = Raise("AttributeError") THEN None
             ELSE IF found.tag = "raise" THEN found
             ELSE object_getattribute(d, name)

\* self.name, getattr(self, name) and hasattr(self, name): the class's
\* __getattribute__, and its __getattr__ after an AttributeError
getattr(d, name, depth) ==
    LET found == __getattribute__(d, name, depth)
    IN  IF found = Raise("AttributeError") THEN __getattr__(d, name, depth) ELSE found

\* EnvBase.__contains__(self, item)
__contains__(d, item, depth) ==
    LET dict == getattr(d, DictAttr, depth)
    IN  IF dict.tag = "raise" THEN dict ELSE Bool(item \in DOMAIN d)

\* EnvBase.__getattr__(self, name)
__getattr__(d, name, depth) ==
    LET present == __contains__(d, name, depth)
    IN  IF present.tag = "raise" THEN present
        ELSE IF present.b THEN d[name]
        ELSE None

\* EnvBase.__getitem__(self, item)
__getitem__(d, item) ==
    LET method == getattr(d, GetattrAttr, 1)
    IN  IF method.tag = "raise" THEN method ELSE __getattr__(d, item, 1)

\* self.name = value: EnvBase is a dataclass that is not frozen, so this is
\* object.__setattr__ and it binds the name in __dict__
__setattr__(d, name, value) ==
    [k \in DOMAIN d \cup {name} |-> IF k = name THEN value ELSE d[k]]

\* the three styles of lookup: item in self, self.item and self[item]; none
\* of them assigns to self.__dict__
Styles == {"in", "attr", "item"}

lookup(style, d, item) ==
    CASE style = "in"   -> __contains__(d, item, 1)
      [] style = "attr" -> getattr(d, item, 1)
      [] style = "item" -> __getitem__(d, item)

(***************************************************************************)
(* parse_env(name) reads os.environ when it is called.                     *)
(***************************************************************************)
parse_env(env, name) ==
    LET value == IF name \in DOMAIN env THEN String(env[name]) ELSE None
    IN  IF value.tag = "str" /\ Len(value.s) > 0 THEN as_int(name, value.s) ELSE value

\* a call parse_env(n) that also removes the variable it read
ParseEnv_Pop(n) ==
    /\ Idle
    /\ op' = "parse_env"
    /\ inKey' = n
    /\ ret' = parse_env(environ, n)
    /\ environ' = [k \in DOMAIN environ \ {n} |-> environ[k]]
    /\ UNCHANGED <<inData, parsed, cls, self_dict, stack>>

\* a call parse_env(n)
ParseEnv(n) ==
    /\ Idle
    /\ op' = "parse_env"
    /\ inKey' = n
    /\ ret' = parse_env(environ, n)
    /\ UNCHANGED <<inData, environ, parsed, cls, self_dict, stack>>

NextEnv ==
    \/ \E n \in EnvNames, v \in EnvValues : SetEnv(n, v)
    \/ \E n \in EnvNames : DelEnv(n)
    \/ \E c \in Classes, p \in BOOLEAN : Construct(c, p)
    \/ \E n \in EnvNames : ParseEnv(n)
    \/ GetAttribute
    \/ RecursionError
    \/ Unwind

SpecEnv == InitEnv /\ [][NextEnv]_vars

(***************************************************************************)
(* Claims about the construction of a snapshot, checked under SpecEnv.     *)
(***************************************************************************)
Constructed == op = "EnvBase" /\ stack = <<>> /\ ret # Pending

\* C9: constructing a snapshot in the default, parsed mode succeeds for
\* any environment and stores as_int(name, raw) for every entry of the
\* environment.
C9_ParsedConstruction ==
    (Constructed /\ parsed) =>
        /\ ret = Instance
        /\ self_dict = [k \in DOMAIN environ |-> as_int(k, environ[k])]

\* C10: constructing a snapshot in raw mode stores the unconverted raw
\* string of every entry of the environment.
C10_RawConstruction ==
    (Constructed /\ ~parsed) =>
        /\ ret = Instance
        /\ self_dict = [k \in DOMAIN environ |-> String(environ[k])]

(***************************************************************************)
(* Claims about the lookups of a snapshot, checked under SpecEnv.  The     *)
(* snapshot of a finished construction is the instance whose __dict__ is   *)
(* self_dict.                                                              *)
(***************************************************************************)
\* C11: the membership check of a snapshot is true for exactly the names
\* that were in the environment when the snapshot was constructed.
C11_Membership ==
    Constructed =>
        /\ \A n \in EnvNames : __contains__(self_dict, n, 1) = Bool(n \in DOMAIN environ)
        /\ ret = Instance

\* C12: attribute-style and item-style lookup of a name that was absent
\* from the environment at construction return None and do not raise.
C12_AbsentLookup ==
    Constructed =>
        /\ \A n \in (EnvNames \cup ClassMembers) \ DOMAIN environ :
              /\ getattr(self_dict, n, 1) = None
              /\ __getitem__(self_dict, n) = None
        /\ ret = Instance

\* C13: on one snapshot attribute-style and item-style lookup of a name
\* return the same value, the stored entry when the membership check is
\* true and None when it is false, also for the names of class members.
C13_StylesAgree ==
    Constructed =>
        /\ \A n \in EnvNames \cup ClassMembers :
              /\ getattr(self_dict, n, 1) = __getitem__(self_dict, n)
              /\ __contains__(self_dict, n, 1).tag = "bool"
              /\ __getitem__(self_dict, n) =
                    IF __contains__(self_dict, n, 1).b THEN self_dict[n] ELSE None
        /\ ret = Instance

\* C14: once a snapshot is constructed, setting or deleting environment
\* variables changes no membership check and no lookup of the snapshot.
C14_NoLiveSync ==
    [][(Constructed /\ environ' # environ) =>
          /\ self_dict' = self_dict
          /\ \A n \in EnvNames :
                /\ __contains__(self_dict', n, 1) = __contains__(self_dict, n, 1)
                /\ getattr(self_dict', n, 1) = getattr(self_dict, n, 1)
                /\ __getitem__(self_dict', n) = __getitem__(self_dict, n)
          /\ ret = Instance]_vars

\* C15: no lookup, membership check or attribute assignment on a snapshot
\* changes its mapping once construction has finished.
C15_Immutable ==
    Constructed =>
        /\ \A n \in EnvNames, v \in EnvValues :
              __setattr__(self_dict, n, String(v)) = self_dict
        /\ ret = Instance

\* C16: construction of a snapshot in either mode and parse_env leave the
\* process environment as it was.
C16_EnvironNotWritten ==
    [][op' \in {"EnvBase", "parse_env"} => environ' = environ]_vars

C16_Witness ==
    /\ op = "parse_env"
    /\ inKey = <<"F","O","O">>
    /\ inKey \in DOMAIN environ
    /\ environ[inKey] = <<"T","r","U","e">>
    /\ ret = Bool(TRUE)

\* C17: parse_env(name) is None when the name is not in the environment and
\* as_int(name, value) for every name that is, the empty value included.
C17_ParseEnv ==
    op = "parse_env" =>
        ret = IF inKey \in DOMAIN environ THEN as_int(inKey, environ[inKey]) ELSE None

\* C18: every call of parse_env returns the classification of the value the
\* variable holds when the call is made, None when it is deleted, whatever
\* was set, deleted, read or constructed before.
C18_ParseEnvReadsLive ==
    [][op' = "parse_env" =>
          ret' = IF inKey' \in DOMAIN environ'
                 THEN as_int(inKey', environ'[inKey'])
                 ELSE None]_vars

(***************************************************************************)
(* Claims about the categories of Env, about repeated lookups and about    *)
(* termination, checked under SpecEnv.                                     *)
(***************************************************************************)
\* the entry a snapshot constructed in mode p from env holds for name n
EntryOf(p, env, n) ==
    IF n \notin DOMAIN env THEN None
    ELSE IF p THEN as_int(n, env[n])
    ELSE String(env[n])

\* C22: the value a snapshot returns for a name is determined by the
\* environment at construction and the construction mode alone, the same
\* for EnvBase and for Env and whether no category, one category or several
\* categories declare the name, whatever type the declaration gives.
C22_NoPrecedence ==
    Constructed =>
        /\ \A n \in EnvNames :
              /\ getattr(self_dict, n, 1) = EntryOf(parsed, environ, n)
              /\ __getitem__(self_dict, n) = EntryOf(parsed, environ, n)
        /\ ret = Instance

\* what a lookup of each style reports for an absent name
Absence(style) == IF style = "in" THEN Bool(FALSE) ELSE None

\* C23: for a name that was never in the environment, every lookup of a
\* run of membership, attribute-style and item-style lookups on one
\* snapshot, in any order, reports absence, and the name is not in the
\* snapshot's mapping afterwards.
C23_AbsenceIdempotent ==
    Constructed =>
        /\ \A n \in EnvNames \ DOMAIN environ :
              \A run \in [1..MaxLookups -> Styles] :
                 /\ \A i \in 1..MaxLookups : lookup(run[i], self_dict, n) = Absence(run[i])
                 /\ n \notin DOMAIN self_dict
        /\ ret = Instance

\* C24: the construction of a snapshot and every attribute-style lookup on
\* a snapshot end with a value after finitely many nested resolution steps:
\* __getattribute__ reaches a base case, so neither ends in the
\* RecursionError the interpreter raises when the nesting has no end.
C24_Terminates ==
    /\ op = "EnvBase" => ret # Raise("RecursionError")
    /\ Constructed =>
          \A n \in EnvNames \cup ClassMembers :
             getattr(self_dict, n, 1) # Raise("RecursionError")

\* C26: when the environment is not changed after a snapshot is constructed
\* in parsed mode, the item lookup of every name on the snapshot equals
\* parse_env of the name, for names that are absent, present with a
\* non-empty value and present with the empty value.
C26_SnapshotAgreesWithParseEnv ==
    (Constructed /\ parsed) =>
        /\ \A n \in EnvNames : __getitem__(self_dict, n) = parse_env(environ, n)
        /\ \A n \in DOMAIN environ : post_init(parsed, environ)[n] = parse_env(environ, n)
        /\ ret = Instance

====
